---- MODULE Spec2Model ----
(***************************************************************************)
(* LeapKit/core, package assets: the asset manager (Open, ReadFile,        *)
(* HandlerFn, PathFor) and the tree synchronizer (CopyAll, Watch).         *)
(*                                                                         *)
(* A path is a sequence of lexical tokens: "/" is the separator, a token   *)
(* of ExtTokens is a file extension (".js", ".go"), every other token is   *)
(* a name stem.  "other/main.js" is <<"other", "/", "main", ".js">>.       *)
(* A file's bytes are a sequence of one-character strings.                 *)
(***************************************************************************)
EXTENDS Integers, Sequences, FiniteSets, TLC

VARIABLES
    embedded,     \* manager.embedded: the snapshot filesystem, name -> entry
    goEnv,        \* the GO_ENV environment variable, read by Open at every call
    fileToHash,   \* the manager's fingerprint index: normalized name -> entry
    gen,          \* number of managers constructed so far (process restarts)
    built,        \* GO_ENV as it was when the running manager was constructed
    last,         \* outcome of the last manager call, if it was the last step
    mark,         \* outcome of some earlier PathFor call, kept for comparison
    src,          \* the input folder: relative path -> entry
    out,          \* the output folder (the live directory): relative path -> entry
    pc,           \* position of Watch / of its event-loop goroutine
    walk,         \* CopyAll's filepath.Walk: the paths still to visit
    cur,          \* CopyAll: the file being copied, between os.Create and io.Copy
    held,         \* bytes of an open source file that was unlinked meanwhile
    evName,       \* the event being handled by the loop: its Name
    evOp,         \* the event being handled by the loop: its Op
    watchSet,     \* paths registered with the fsnotify watcher
    events,       \* watcher.Events: queue of events not yet received
    pass,         \* bookkeeping about the current / last CopyAll pass
    fresh,        \* paths created under the input folder while it was watched
    changes,      \* number of changes made to the input folder so far
    errs,         \* number of errors received from watcher.Errors and logged
    closed,       \* the watcher's channels have been closed
    early         \* files written between the initial CopyAll and the registration

mgrVars == <<embedded, goEnv, fileToHash, gen, built, last, mark>>
syncVars == <<src, pc, walk, cur, held, evName, evOp, watchSet, events, pass, fresh,
             changes, errs, closed, early>>
vars == <<embedded, goEnv, fileToHash, gen, built, last, mark, src, out, pc, walk, cur,
          held, evName, evOp, watchSet, events, pass, fresh, changes, errs, closed,
          early>>

----------------------------------------------------------------------------
(* Bounds of the model. *)

\* managers constructed after the first one (process restarts)
MaxRestarts == 1

\* changes made to the input folder in one run
MaxChanges == 3

\* events waiting in watcher.Events
MaxQueue == 2

\* errors the watcher reports in one run
MaxErrors == 1

----------------------------------------------------------------------------
(* Paths, bytes and filesystem entries. *)

Slash == "/"
ExtTokens == {".js", ".go"}

MainJs == <<"main", ".js">>
Other == <<"other">>
OtherMainJs == <<"other", "/", "main", ".js">>
OtherXGo == <<"other", "/", "x", ".go">>
PublicDir == <<"public">>
PublicMainJs == <<"public", "/", "main", ".js">>

AAA == <<"A", "A", "A">>
BB == <<"B", "B">>

NoEnt == [kind |-> "none", data |-> <<>>]
DirEnt == [kind |-> "dir", data |-> <<>>]
FileEnt(b) == [kind |-> "file", data |-> b]

\* strings.TrimPrefix on token sequences
TrimPrefix(s, prefix) ==
    IF Len(s) >= Len(prefix) /\ SubSeq(s, 1, Len(prefix)) = prefix
    THEN SubSeq(s, Len(prefix) + 1, Len(s))
    ELSE s

\* strings.TrimSuffix on token sequences
TrimSuffix(s, suffix) ==
    IF Len(s) >= Len(suffix) /\ SubSeq(s, Len(s) - Len(suffix) + 1, Len(s)) = suffix
    THEN SubSeq(s, 1, Len(s) - Len(suffix))
    ELSE s

\* filepath.Ext: the suffix of the last path element that starts at its final dot
Ext(name) ==
    IF name # <<>> /\ name[Len(name)] \in ExtTokens THEN name[Len(name)] ELSE ""

\* index of the last separator of a path, 0 when it has none
LastSlash(p) ==
    LET idx == {i \in 1..Len(p) : p[i] = Slash}
    IN  IF idx = {} THEN 0 ELSE CHOOSE i \in idx : \A j \in idx : j <= i

\* the directory part of a path, with its trailing separator (empty at the root)
DirOf(p) == SubSeq(p, 1, LastSlash(p))

\* filepath.Base: the last element of a path
BaseOf(p) == SubSeq(p, LastSlash(p) + 1, Len(p))

\* fs.FS.Open followed by reading the file: a lookup in a name -> entry map
FsLookup(fsys, name) ==
    IF name \in DOMAIN fsys THEN fsys[name] ELSE NoEnt

----------------------------------------------------------------------------
(* The asset manager. *)

EmbNames == {MainJs, OtherMainJs, PublicMainJs, OtherXGo}
SyncPaths == {MainJs, Other, OtherXGo}

\* a snapshot filesystem with the given entries
Snap(a, b, c, d) ==
    [n \in EmbNames |->
        IF n = MainJs THEN a
        ELSE IF n = OtherMainJs THEN b
        ELSE IF n = PublicMainJs THEN c
        ELSE d]

\* the bundle of the test: main.js and other/main.js with the same bytes
Fixture == Snap(FileEnt(AAA), FileEnt(AAA), NoEnt, NoEnt)

\* the bundles a manager is constructed over
Snapshots ==
    { Fixture,
      Snap(FileEnt(BB), FileEnt(AAA), NoEnt, FileEnt(BB)),
      Snap(FileEnt(AAA), NoEnt, FileEnt(BB), FileEnt(AAA)) }

\* a tree over SyncPaths
Tree(m, d, x) ==
    [n \in SyncPaths |-> IF n = MainJs THEN m ELSE IF n = Other THEN d ELSE x]

EmptyTree == Tree(NoEnt, NoEnt, NoEnt)

\* manager.servingPath, the route pattern
servingPath == <<"/", "public", "/", "*">>

\* manager.handlerPrefix
handlerPrefix == TrimSuffix(servingPath, <<"*">>)

\* manager.Open: the denylist first, then the filesystem GO_ENV selects
OpenMutDevOnly(name, env, emb, folder) ==
    LET useFolder == env = "development"
        e == FsLookup(IF useFolder THEN folder ELSE emb, name)
    IN  IF Ext(name) = ".go" /\ ~useFolder
        THEN [ok |-> FALSE, data |-> <<>>, fsys |-> "none"]
        ELSE [ok |-> e.kind # "none", data |-> e.data,
              fsys |-> IF useFolder THEN "folder" ELSE "embedded"]

OpenMutNeverFolder(name, env, emb, folder) ==
    IF Ext(name) = ".go"
    THEN [ok |-> FALSE, data |-> <<>>, fsys |-> "none"]
    ELSE LET e == FsLookup(emb, name)
         IN  [ok |-> e.kind # "none", data |-> e.data, fsys |-> "embedded"]

OpenMutAlwaysFolder(name, env, emb, folder) ==
    IF Ext(name) = ".go"
    THEN [ok |-> FALSE, data |-> <<>>, fsys |-> "none"]
    ELSE LET e == FsLookup(folder, name)
         IN  [ok |-> e.kind # "none", data |-> e.data, fsys |-> "folder"]

Open(name, env, emb, folder) ==
    IF Ext(name) = ".go"
    THEN [ok |-> FALSE, data |-> <<>>, fsys |-> "none"]
    ELSE LET useFolder == env = "development"
             e == FsLookup(IF useFolder THEN folder ELSE emb, name)
         IN  [ok |-> e.kind # "none", data |-> e.data,
              fsys |-> IF useFolder THEN "folder" ELSE "embedded"]

\* manager.ReadFile: m.embedded.Open(name), then io.ReadAll
ReadFileMutByMode(name, env, emb, folder) ==
    LET e == FsLookup(IF env = "development" THEN folder ELSE emb, name)
    IN  IF e.kind # "file"
        THEN [ok |-> FALSE, data |-> <<>>, fsys |-> "embedded"]
        ELSE [ok |-> TRUE, data |-> e.data,
              fsys |-> IF env = "development" THEN "folder" ELSE "embedded"]

ReadFileMutNoBytes(name, env, emb, folder) ==
    LET e == FsLookup(emb, name)
    IN  IF e.kind # "file"
        THEN [ok |-> FALSE, data |-> <<>>, fsys |-> "embedded"]
        ELSE [ok |-> TRUE, data |-> <<>>, fsys |-> "embedded"]

ReadFile(name, env, emb, folder) ==
    LET e == FsLookup(emb, name)
    IN  IF e.kind # "file"
        THEN [ok |-> FALSE, data |-> <<>>, fsys |-> "embedded"]
        ELSE [ok |-> TRUE, data |-> e.data, fsys |-> "embedded"]

\* manager.HandlerFn: http.ServeFileFS over the manager, on the URL path less
\* the handler prefix; http.FS drops one leading slash before calling Open
HandlerFnMutNoTrim(url, env, emb, folder) ==
    LET r == Open(TrimPrefix(url, <<Slash>>), env, emb, folder)
    IN  IF r.ok
        THEN [ok |-> TRUE, data |-> r.data, fsys |-> r.fsys, status |-> 200]
        ELSE [ok |-> FALSE, data |-> <<>>, fsys |-> r.fsys, status |-> 404]

HandlerFn(url, env, emb, folder) ==
    LET name == TrimPrefix(url, handlerPrefix)
        r == Open(TrimPrefix(name, <<Slash>>), env, emb, folder)
    IN  IF r.ok
        THEN [ok |-> TRUE, data |-> r.data, fsys |-> r.fsys, status |-> 200]
        ELSE [ok |-> FALSE, data |-> <<>>, fsys |-> r.fsys, status |-> 404]

----------------------------------------------------------------------------
(* Path resolution: ContentHasher and the fingerprint index. *)

\* the byte value of a character
Code(c) == IF c = "A" THEN 65 ELSE 66

\* ContentHasher: a 16-bit multiplicative digest of the bytes, as a token
RECURSIVE Digest(_, _)
Digest(h, bytes) ==
    IF bytes = <<>> THEN h
    ELSE Digest((h * 33 + Code(Head(bytes))) % 65536, Tail(bytes))

Hash(bytes) == ToString(Digest(5381, bytes))

\* the public prefix, as a path segment and as the root of every serving path
PublicPrefix == <<"public", Slash>>
PublicRoot == <<Slash>> \o PublicPrefix

\* normalization of a logical path: drop a leading slash, then the public prefix
NormalizeMutKeepSlash(name) == TrimPrefix(name, PublicPrefix)

Normalize(name) == TrimPrefix(TrimPrefix(name, <<Slash>>), PublicPrefix)

\* the serving path: the token goes right before the base name, inside the
\* asset's directory, under the public root
ServingPathOfMutFlat(norm, token) == PublicRoot \o <<token, "-">> \o BaseOf(norm)

ServingPathOf(norm, token) ==
    PublicRoot \o DirOf(norm) \o <<token, "-">> \o BaseOf(norm)

\* the token embedded in a serving path
TokenOf(path) == path[LastSlash(path) + 1]

EmptyIndex == [n \in {} |-> <<>>]

\* manager.PathFor: index hit, or read the bytes, hash them and fill the index
PathFor(name, env, emb, folder, index) ==
    LET norm == Normalize(name)
    IN  IF norm \in DOMAIN index
        THEN [ok |-> TRUE, path |-> index[norm], index |-> index]
        ELSE LET r == ReadFile(norm, env, emb, folder)
             IN  IF ~r.ok
                 THEN [ok |-> FALSE, path |-> <<>>, index |-> index]
                 ELSE LET sp == ServingPathOf(norm, Hash(r.data))
                      IN  [ok |-> TRUE, path |-> sp, index |-> index @@ (norm :> sp)]

----------------------------------------------------------------------------
(* The manager's calls as actions. *)

NoCall ==
    [op |-> "none", name |-> <<>>, ok |-> FALSE, data |-> <<>>, path |-> <<>>,
     fsys |-> "none", status |-> 0, gen |-> 0, env |-> "none",
     asset |-> NoEnt, live |-> NoEnt]

\* the record of a call: its outcome, and what the call found in place (the
\* running manager, GO_ENV, the entries of file in the bundle and on disk)
Call(op, name, ok, data, path, fsys, status, file) ==
    [op |-> op, name |-> name, ok |-> ok, data |-> data, path |-> path,
     fsys |-> fsys, status |-> status, gen |-> gen, env |-> goEnv,
     asset |-> FsLookup(embedded, file), live |-> FsLookup(out, file)]

\* what mark keeps of a PathFor call
Kept(c) ==
    [op |-> c.op, name |-> c.name, ok |-> c.ok, path |-> c.path, gen |-> c.gen,
     asset |-> c.asset]

\* the spellings under which a caller may pass asset name n to PathFor
Spellings(n) == {n, <<Slash>> \o n, PublicPrefix \o n, PublicRoot \o n}

PathForInputs ==
    Spellings(MainJs) \cup {OtherMainJs, PublicPrefix \o OtherMainJs}
        \cup {PublicPrefix \o PublicMainJs}

\* every name is missing from some bundle and from some live directory
OpenNames == {MainJs, OtherMainJs, OtherXGo}

Urls == {handlerPrefix \o n : n \in OpenNames}

EnvValues == {"development", "production"}

\* the live directory of a manager that runs without the synchronizer
LiveTrees == {EmptyTree, Tree(FileEnt(BB), DirEnt, FileEnt(AAA))}

CallPathFor(name) ==
    LET r == PathFor(name, goEnv, embedded, out, fileToHash)
        c == Call("PathFor", name, r.ok, <<>>, r.path, "none", 0,
                  Normalize(name))
    IN  /\ fileToHash' = r.index
        /\ last' = c
        /\ mark' \in {mark, Kept(c)}
        /\ UNCHANGED <<embedded, goEnv, gen, built, out>>
        /\ UNCHANGED syncVars

CallOpen(name) ==
    LET r == Open(name, goEnv, embedded, out)
    IN  /\ last' = Call("Open", name, r.ok, r.data, <<>>, r.fsys, 0,
                        name)
        /\ UNCHANGED <<embedded, goEnv, fileToHash, gen, built, mark, out>>
        /\ UNCHANGED syncVars

CallReadFile(name) ==
    LET r == ReadFile(name, goEnv, embedded, out)
    IN  /\ last' = Call("ReadFile", name, r.ok, r.data, <<>>, r.fsys, 0,
                        name)
        /\ UNCHANGED <<embedded, goEnv, fileToHash, gen, built, mark, out>>
        /\ UNCHANGED syncVars

CallHandlerFn(url) ==
    LET r == HandlerFn(url, goEnv, embedded, out)
    IN  /\ last' = Call("HandlerFn", url, r.ok, r.data, <<>>, r.fsys, r.status,
                        TrimPrefix(url, handlerPrefix))
        /\ UNCHANGED <<embedded, goEnv, fileToHash, gen, built, mark, out>>
        /\ UNCHANGED syncVars

\* os.Setenv("GO_ENV", e) by the process or its environment
Setenv(e) ==
    /\ goEnv # e
    /\ goEnv' = e
    /\ UNCHANGED <<embedded, fileToHash, gen, built, last, mark, out>>
    /\ UNCHANGED syncVars

\* assets.NewManager after a restart of the process: a fresh index over a bundle
NewManager(snapshot) ==
    /\ gen < MaxRestarts
    /\ gen' = gen + 1
    /\ embedded' = snapshot
    /\ fileToHash' = EmptyIndex
    /\ built' = goEnv
    /\ UNCHANGED <<goEnv, last, mark, out>>
    /\ UNCHANGED syncVars

\* a step of the synchronizer or a change of the input folder: the manager
\* keeps its state, and the record of its last call, which describes the
\* folders as the call found them, is dropped
MgrIdle ==
    /\ last' = NoCall
    /\ UNCHANGED <<embedded, goEnv, fileToHash, gen, built, mark>>

\* no CopyAll pass has run yet
NoPass ==
    [err |-> FALSE, at |-> <<>>, clean |-> FALSE, twice |-> FALSE, event |-> FALSE,
     retry |-> FALSE, base |-> EmptyTree]

SyncIdle ==
    /\ src = EmptyTree
    /\ pc = "idle"
    /\ walk = <<>>
    /\ cur = <<>>
    /\ held = NoEnt
    /\ evName = <<>>
    /\ evOp = "none"
    /\ watchSet = {}
    /\ events = <<>>
    /\ pass = NoPass
    /\ fresh = {}
    /\ changes = 0
    /\ errs = 0
    /\ closed = FALSE
    /\ early = {}

InitManager ==
    /\ embedded \in Snapshots
    /\ goEnv \in EnvValues
    /\ fileToHash = EmptyIndex
    /\ gen = 0
    /\ built = goEnv
    /\ last = NoCall
    /\ mark = Kept(NoCall)
    /\ out \in LiveTrees
    /\ SyncIdle

NextManager ==
    \/ \E name \in PathForInputs : CallPathFor(name)
    \/ \E name \in OpenNames : CallOpen(name)
    \/ \E name \in OpenNames : CallReadFile(name)
    \/ \E url \in Urls : CallHandlerFn(url)
    \/ \E e \in EnvValues : Setenv(e)
    \/ \E snapshot \in Snapshots : NewManager(snapshot)

SpecManager == InitManager /\ [][NextManager]_vars

----------------------------------------------------------------------------
(* Claims about the asset manager, checked under SpecManager. *)

BothPathFor == mark.op = "PathFor" /\ last.op = "PathFor"

StartsWithPublic(path) == Len(path) >= 3 /\ SubSeq(path, 1, 3) = PublicRoot

\* C1: two PathFor calls for the same logical path, whose asset has the same
\* bytes at both calls, return the identical serving path (or both fail),
\* whatever calls and restarts lie in between.
C1_Determinism ==
    (BothPathFor /\ mark.name = last.name /\ mark.asset = last.asset)
        => (mark.ok = last.ok /\ mark.path = last.path)

C1_Witness ==
    /\ BothPathFor /\ mark.name = last.name /\ mark.asset = last.asset
    /\ mark.ok /\ last.ok /\ mark.gen < last.gen
    /\ mark.path = last.path

\* PathFor calls of the running manager under two spellings of asset name n
SpelledAs(n) ==
    /\ BothPathFor /\ mark.gen = gen /\ last.gen = gen
    /\ mark.name \in Spellings(n) /\ last.name \in Spellings(n)

SameServingPath ==
    /\ mark.ok /\ last.ok /\ mark.path = last.path
    /\ StartsWithPublic(last.path)

\* C2 as stated: for every asset name n that exists, the four spellings n,
\* /n, public/n and /public/n resolve to one serving path under /public/.
C2_Original ==
    \A n \in EmbNames :
        (embedded[n].kind = "file" /\ SpelledAs(n)) => SameServingPath

\* C2: for every existing asset name n that does not itself begin with the
\* public prefix, the four spellings n, /n, public/n and /public/n resolve to
\* one serving path, and that path starts with /public/.
C2_Normalization ==
    \A n \in EmbNames :
        (embedded[n].kind = "file" /\ TrimPrefix(n, PublicPrefix) = n /\ SpelledAs(n))
            => SameServingPath

C2_Witness ==
    /\ SpelledAs(MainJs) /\ embedded[MainJs].kind = "file"
    /\ mark.name = MainJs /\ last.name = PublicRoot \o MainJs
    /\ SameServingPath

\* C3: two distinct logical paths with the same base name and different
\* directories resolve to different serving paths, also when the two files
\* have identical bytes.  A logical path is the path of the asset under the
\* public root, so the directories compared are those left by normalization
\* (public/main.js and /main.js spell one logical path, by C2).
C3_DirectoryDistinct ==
    (/\ BothPathFor /\ mark.gen = last.gen /\ mark.ok /\ last.ok
     /\ BaseOf(Normalize(mark.name)) = BaseOf(Normalize(last.name))
     /\ DirOf(Normalize(mark.name)) # DirOf(Normalize(last.name)))
        => mark.path # last.path

C3_Witness ==
    /\ BothPathFor /\ mark.gen = last.gen /\ mark.ok /\ last.ok
    /\ mark.name = PublicPrefix \o MainJs
    /\ last.name = PublicPrefix \o OtherMainJs
    /\ mark.asset = last.asset
    /\ mark.path # last.path

\* C4: the token of a serving path depends on the asset's bytes only: equal
\* bytes give equal tokens, also at different logical paths, and different
\* bytes give different serving paths.
C4_ContentSensitive ==
    (BothPathFor /\ mark.ok /\ last.ok)
        => /\ mark.asset.data = last.asset.data
                => TokenOf(mark.path) = TokenOf(last.path)
           /\ mark.asset.data # last.asset.data => mark.path # last.path

C4_Witness ==
    /\ BothPathFor /\ mark.ok /\ last.ok
    /\ Normalize(mark.name) = MainJs /\ Normalize(last.name) = OtherMainJs
    /\ mark.asset.data = AAA /\ last.asset.data = AAA
    /\ TokenOf(mark.path) = TokenOf(last.path)

\* C5: Open of a name with the .go extension fails with not-exist, returns no
\* bytes and reads neither filesystem, in every mode, whether or not the file
\* exists.
C5_OpenDenylist ==
    (last.op = "Open" /\ Ext(last.name) = ".go")
        => (~last.ok /\ last.data = <<>> /\ last.fsys = "none")

C5_Witness ==
    /\ last.op = "Open" /\ last.name = OtherXGo /\ ~last.ok
    /\ goEnv = "development"
    /\ out[OtherXGo].kind = "file" /\ embedded[OtherXGo].kind = "file"

\* C6 as stated: ReadFile of a name with a denylisted extension reports not
\* found and returns no bytes, even when the file exists.
C6_ReadFileDenylist ==
    (last.op = "ReadFile" /\ Ext(last.name) = ".go")
        => (~last.ok /\ last.data = <<>>)

\* C7: HandlerFn on the handler prefix followed by p answers with the file
\* Open(p) returns, and with 404 and no bytes when Open(p) fails, which it
\* does when p has the .go extension or names no file.
C7_Handler ==
    last.op = "HandlerFn" =>
        LET p == TrimPrefix(last.name, handlerPrefix)
            r == Open(p, last.env, p :> last.asset, p :> last.live)
            found == IF last.env = "development" THEN last.live ELSE last.asset
        IN  /\ r.ok => (last.status = 200 /\ last.data = r.data)
            /\ (Ext(p) = ".go" \/ found.kind = "none")
                  => (last.status = 404 /\ last.data = <<>>)

C7_Witness ==
    /\ last.op = "HandlerFn" /\ last.name = handlerPrefix \o OtherXGo
    /\ last.asset.kind = "file" /\ last.gen = gen
    /\ last.status = 404 /\ last.data = <<>>

\* C12 as stated: Open of a name that is not denied reads the filesystem that
\* the mode at the construction of the manager selects (the live directory
\* for development, the bundle otherwise), whatever GO_ENV has become since.
C12_ModeFixed ==
    (last.op = "Open" /\ last.gen = gen /\ Ext(last.name) # ".go")
        => last.fsys = IF built = "development" THEN "folder" ELSE "embedded"

----------------------------------------------------------------------------
(* The tree synchronizer: CopyAll and Watch.                               *)
(* The input folder holds main.js, the directory other and other/x.go; the *)
(* output folder may hold anything at these paths.  A CopyAll pass is a    *)
(* sequence of steps, so that changes of the input folder interleave with  *)
(* it: one step per path visited by filepath.Walk (for a file, up to       *)
(* os.Create) and one step for io.Copy.                                    *)

\* the input folder itself, as a path relative to it
Root == <<>>

\* the paths in the lexical order in which filepath.Walk visits them
SortedPaths == <<MainJs, Other, OtherXGo>>

FilePaths == {MainJs, OtherXGo}

Contents == {AAA, BB}

\* filepath.Dir of a relative path
ParentOf(p) == TrimSuffix(DirOf(p), <<Slash>>)

Exists(tree, p) == IF p = Root THEN TRUE ELSE tree[p].kind # "none"

\* readDirNames: the sorted entries of directory dir
ReadDirNamesMutFlat(tree, dir) ==
    IF dir = Root
    THEN SelectSeq(SortedPaths, LAMBDA p : ParentOf(p) = dir /\ tree[p].kind # "none")
    ELSE <<>>

ReadDirNames(tree, dir) ==
    SelectSeq(SortedPaths, LAMBDA p : ParentOf(p) = dir /\ tree[p].kind # "none")

\* os.MkdirAll of directory dir of the output folder
MkdirAll(tree, dir) ==
    IF dir = Root \/ tree[dir].kind = "dir" THEN [ok |-> TRUE, tree |-> tree]
    ELSE IF tree[dir].kind = "file" THEN [ok |-> FALSE, tree |-> tree]
    ELSE [ok |-> TRUE, tree |-> [tree EXCEPT ![dir] = DirEnt]]

\* os.Create of file p of the output folder: created, or truncated if it exists
CreateMutAppend(tree, p) ==
    IF tree[p].kind = "dir" THEN [ok |-> FALSE, tree |-> tree]
    ELSE IF tree[p].kind = "file" THEN [ok |-> TRUE, tree |-> tree]
    ELSE [ok |-> TRUE, tree |-> [tree EXCEPT ![p] = FileEnt(<<>>)]]

Create(tree, p) ==
    IF tree[p].kind = "dir" THEN [ok |-> FALSE, tree |-> tree]
    ELSE [ok |-> TRUE, tree |-> [tree EXCEPT ![p] = FileEnt(<<>>)]]

\* io.Copy: the bytes of the open source file go to the destination's offset,
\* which os.Create left at the end of the empty file
Copy(tree, p, bytes) == [tree EXCEPT ![p] = FileEnt(tree[p].data \o bytes)]

\* the start of CopyAll: filepath.Walk reads the input folder's entries.  The
\* pass record notes whether an event started the pass (ev), whether the pass
\* before it returned nil over the same input folder (twice) or was started
\* by an event and failed (retry),
\* and the output folder as the pass found it (base)
BeginPass(ev) ==
    /\ walk' = ReadDirNames(src, Root)
    /\ cur' = <<>>
    /\ held' = NoEnt
    /\ pass' = [err |-> FALSE, at |-> <<>>, clean |-> TRUE,
                twice |-> pass.clean /\ ~pass.err, event |-> ev,
                retry |-> pass.event /\ pass.err, base |-> out]

\* the walk function returns an error at path p: filepath.Walk stops, the
\* open files are closed and CopyAll returns the error
AbortMutSkip(tree, p) ==
    /\ out' = tree
    /\ walk' = Tail(walk)
    /\ cur' = <<>>
    /\ held' = NoEnt
    /\ pass' = [pass EXCEPT !.err = TRUE, !.at = p]
    /\ UNCHANGED pc

Abort(tree, p) ==
    /\ out' = tree
    /\ pc' = "copied"
    /\ walk' = <<>>
    /\ cur' = <<>>
    /\ held' = NoEnt
    /\ pass' = [pass EXCEPT !.err = TRUE, !.at = p]

\* Watch begins: the initial CopyAll
WatchStart ==
    /\ pc = "idle"
    /\ pc' = "copy"
    /\ BeginPass(FALSE)
    /\ UNCHANGED <<src, out, evName, evOp, watchSet, events, fresh, changes>>
    /\ UNCHANGED <<errs, closed, early>>
    /\ MgrIdle

\* filepath.Walk visits the next path and calls CopyAll's function on it
WalkStep ==
    /\ pc = "copy" /\ cur = <<>> /\ walk # <<>>
    /\ LET p == Head(walk)
           m == MkdirAll(out, ParentOf(p))
           c == Create(m.tree, p)
       IN  CASE src[p].kind = "none" -> Abort(out, p)
             [] src[p].kind = "dir" ->
                  /\ walk' = ReadDirNames(src, p) \o Tail(walk)
                  /\ UNCHANGED <<out, pc, cur, held, pass>>
             [] src[p].kind = "file" ->
                  IF ~m.ok THEN Abort(out, p)
                  ELSE IF ~c.ok THEN Abort(m.tree, p)
                  ELSE /\ out' = c.tree
                       /\ cur' = p
                       /\ UNCHANGED <<pc, walk, held, pass>>
    /\ UNCHANGED <<src, evName, evOp, watchSet, events, fresh, changes>>
    /\ UNCHANGED <<errs, closed, early>>
    /\ MgrIdle

\* io.Copy of the file opened by the last WalkStep
CopyStepMutMove ==
    /\ pc = "copy" /\ cur # <<>>
    /\ out' = Copy(out, cur, IF held.kind = "file" THEN held.data ELSE src[cur].data)
    /\ src' = [src EXCEPT ![cur] = NoEnt]
    /\ cur' = <<>>
    /\ held' = NoEnt
    /\ walk' = Tail(walk)
    /\ UNCHANGED <<pc, evName, evOp, watchSet, events, pass, fresh, changes>>
    /\ UNCHANGED <<errs, closed, early>>
    /\ MgrIdle

CopyStep ==
    /\ pc = "copy" /\ cur # <<>>
    /\ out' = Copy(out, cur, IF held.kind = "file" THEN held.data ELSE src[cur].data)
    /\ cur' = <<>>
    /\ held' = NoEnt
    /\ walk' = Tail(walk)
    /\ UNCHANGED <<src, pc, evName, evOp, watchSet, events, pass, fresh, changes>>
    /\ UNCHANGED <<errs, closed, early>>
    /\ MgrIdle

\* io.Copy fails with a disk error: the bytes of a file of this size travel
\* in one write, which fails as a whole and leaves the file as os.Create did
CopyFails ==
    /\ pc = "copy" /\ cur # <<>>
    /\ Abort(out, cur)
    /\ UNCHANGED <<src, evName, evOp, watchSet, events, fresh, changes>>
    /\ UNCHANGED <<errs, closed, early>>
    /\ MgrIdle

\* the walk is over: CopyAll returns nil
WalkDoneMutPrune ==
    /\ pc = "copy" /\ cur = <<>> /\ walk = <<>>
    /\ pc' = "copied"
    /\ out' = [p \in SyncPaths |->
                 IF out[p].kind = "file" /\ src[p].kind # "file" THEN NoEnt ELSE out[p]]
    /\ UNCHANGED <<src, walk, cur, held, evName, evOp, watchSet, events, pass,
                   fresh, changes>>
    /\ UNCHANGED <<errs, closed, early>>
    /\ MgrIdle

WalkDone ==
    /\ pc = "copy" /\ cur = <<>> /\ walk = <<>>
    /\ pc' = "copied"
    /\ UNCHANGED <<src, out, walk, cur, held, evName, evOp, watchSet, events, pass,
                   fresh, changes>>
    /\ UNCHANGED <<errs, closed, early>>
    /\ MgrIdle

\* after the initial CopyAll (its error is only logged): fsnotify.NewWatcher
NewWatcher ==
    /\ pc = "copied" /\ evOp = "none"
    /\ pc' = "register"
    /\ UNCHANGED <<src, out, walk, cur, held, evName, evOp, watchSet, events, pass,
                   fresh, changes>>
    /\ UNCHANGED <<errs, closed, early>>
    /\ MgrIdle

\* fsnotify.NewWatcher returns an error
NewWatcherFails ==
    /\ pc = "copied" /\ evOp = "none"
    /\ pc' = "failed"
    /\ UNCHANGED <<src, out, walk, cur, held, evName, evOp, watchSet, events, pass,
                   fresh, changes>>
    /\ UNCHANGED <<errs, closed, early>>
    /\ MgrIdle

\* watcher.Add of one path
WatcherAddMutReplace(set, name) == {name}

WatcherAdd(set, name) == set \cup {name}

\* the paths of the registration walk, in its order: the input folder first
RegWalkMutTop(tree) == <<Root>>

RegWalk(tree) ==
    <<Root>> \o SelectSeq(SortedPaths, LAMBDA p : tree[p].kind # "none")

\* the watch set after watcher.Add of the first k paths of a walk
RECURSIVE AddFirst(_, _, _)
AddFirst(set, paths, k) ==
    IF k = 0 THEN set ELSE WatcherAdd(AddFirst(set, paths, k - 1), paths[k])

\* filepath.Walk adds every path under the input folder to the watcher, then
\* the event loop starts
Register ==
    /\ pc = "register"
    /\ watchSet' = AddFirst(watchSet, RegWalk(src), Len(RegWalk(src)))
    /\ pc' = "watching"
    /\ UNCHANGED <<src, out, walk, cur, held, evName, evOp, events, pass, fresh,
                   changes>>
    /\ UNCHANGED <<errs, closed, early>>
    /\ MgrIdle

\* watcher.Add returns an error at some path of the walk (the path is gone,
\* or the watches of the system are used up): the walk returns the error
RegisterFails ==
    /\ pc = "register"
    /\ \E k \in 0..(Len(RegWalk(src)) - 1) :
           watchSet' = AddFirst(watchSet, RegWalk(src), k)
    /\ pc' = "failed"
    /\ UNCHANGED <<src, out, walk, cur, held, evName, evOp, events, pass, fresh,
                   changes>>
    /\ UNCHANGED <<errs, closed, early>>
    /\ MgrIdle

\* the error of fsnotify.NewWatcher or of the registration walk: panic
PanicMutLogs ==
    /\ pc = "failed"
    /\ pc' = "watching"
    /\ UNCHANGED <<src, out, walk, cur, held, evName, evOp, watchSet, events, pass,
                   fresh, changes>>
    /\ UNCHANGED <<errs, closed, early>>
    /\ MgrIdle

Panic ==
    /\ pc = "failed"
    /\ pc' = "panicked"
    /\ UNCHANGED <<src, out, walk, cur, held, evName, evOp, watchSet, events, pass,
                   fresh, changes>>
    /\ UNCHANGED <<errs, closed, early>>
    /\ MgrIdle

\* event.Has(Create) || event.Has(Write) || event.Has(Rename)
NeedsCopyMutNoRename(op) == op \in {"Create", "Write"}

NeedsCopy(op) == op \in {"Create", "Write", "Rename"}

\* the loop receives an event that needs a copy and calls CopyAll
TakeEventCopyMutEager ==
    /\ pc \in {"watching", "copy"} /\ events # <<>>
    /\ NeedsCopy(Head(events).op)
    /\ events' = Tail(events)
    /\ evName' = Head(events).name
    /\ evOp' = Head(events).op
    /\ pc' = "copy"
    /\ BeginPass(TRUE)
    /\ UNCHANGED <<src, out, watchSet, fresh, changes>>
    /\ UNCHANGED <<errs, closed, early>>
    /\ MgrIdle

TakeEventCopy ==
    /\ pc = "watching" /\ events # <<>>
    /\ NeedsCopy(Head(events).op)
    /\ events' = Tail(events)
    /\ evName' = Head(events).name
    /\ evOp' = Head(events).op
    /\ pc' = "copy"
    /\ BeginPass(TRUE)
    /\ UNCHANGED <<src, out, watchSet, fresh, changes>>
    /\ UNCHANGED <<errs, closed, early>>
    /\ MgrIdle

\* the loop receives an event that needs no copy
TakeEventSkip ==
    /\ pc = "watching" /\ events # <<>>
    /\ ~NeedsCopy(Head(events).op)
    /\ events' = Tail(events)
    /\ UNCHANGED <<src, out, pc, walk, cur, held, evName, evOp, watchSet, pass, fresh,
                   changes>>
    /\ UNCHANGED <<errs, closed, early>>
    /\ MgrIdle

\* after the CopyAll of an event (its error is only logged): watcher.Add of
\* the event's name if it was created; Add fails on a path that is gone
EventCopiedMutFatal ==
    /\ pc = "copied" /\ evOp # "none"
    /\ watchSet' = IF evOp = "Create" /\ Exists(src, evName)
                   THEN WatcherAdd(watchSet, evName) ELSE watchSet
    /\ pc' = IF pass.err THEN "panicked" ELSE "watching"
    /\ evName' = <<>>
    /\ evOp' = "none"
    /\ UNCHANGED <<src, out, walk, cur, held, events, pass, fresh, changes>>
    /\ UNCHANGED <<errs, closed, early>>
    /\ MgrIdle

EventCopiedMutOnSuccess ==
    /\ pc = "copied" /\ evOp # "none"
    /\ watchSet' = IF evOp = "Create" /\ Exists(src, evName) /\ ~pass.err
                   THEN WatcherAdd(watchSet, evName) ELSE watchSet
    /\ pc' = "watching"
    /\ evName' = <<>>
    /\ evOp' = "none"
    /\ UNCHANGED <<src, out, walk, cur, held, events, pass, fresh, changes>>
    /\ UNCHANGED <<errs, closed, early>>
    /\ MgrIdle

EventCopied ==
    /\ pc = "copied" /\ evOp # "none"
    /\ watchSet' = IF evOp = "Create" /\ Exists(src, evName)
                   THEN WatcherAdd(watchSet, evName) ELSE watchSet
    /\ pc' = "watching"
    /\ evName' = <<>>
    /\ evOp' = "none"
    /\ UNCHANGED <<src, out, walk, cur, held, events, pass, fresh, changes>>
    /\ UNCHANGED <<errs, closed, early>>
    /\ MgrIdle

\* the loop receives an error from watcher.Errors (the channel has no
\* buffer: the watcher hands the error over when the loop is at its select)
\* and logs it
TakeErrorMutResync ==
    /\ pc = "watching" /\ ~closed /\ errs < MaxErrors
    /\ errs' = errs + 1
    /\ evName' = <<>>
    /\ evOp' = "Write"
    /\ pc' = "copy"
    /\ BeginPass(TRUE)
    /\ UNCHANGED <<src, out, watchSet, events, fresh, changes, closed, early>>
    /\ MgrIdle

TakeError ==
    /\ pc = "watching" /\ ~closed /\ errs < MaxErrors
    /\ errs' = errs + 1
    /\ UNCHANGED <<src, out, pc, walk, cur, held, evName, evOp, watchSet, events, pass,
                   fresh, changes, closed, early>>
    /\ MgrIdle

\* the watcher is closed: its channels are closed, the events not yet
\* received are dropped and nothing is reported any more
WatcherCloses ==
    /\ pc \in {"watching", "copy", "copied"} /\ Root \in watchSet /\ ~closed
    /\ closed' = TRUE
    /\ events' = <<>>
    /\ UNCHANGED <<src, out, pc, walk, cur, held, evName, evOp, watchSet, pass, fresh,
                   changes, errs, early>>
    /\ MgrIdle

\* the loop receives from the closed watcher.Errors: the goroutine returns,
\* while Watch stays blocked on its channel (a receive from the closed
\* watcher.Events only makes the loop go round)
LoopReturnsMutWatchReturns ==
    /\ pc = "watching" /\ closed
    /\ pc' = "returned"
    /\ UNCHANGED <<src, out, walk, cur, held, evName, evOp, watchSet, events, pass,
                   fresh, changes, errs, closed, early>>
    /\ MgrIdle

LoopReturns ==
    /\ pc = "watching" /\ closed
    /\ pc' = "stopped"
    /\ UNCHANGED <<src, out, walk, cur, held, evName, evOp, watchSet, events, pass,
                   fresh, changes, errs, closed, early>>
    /\ MgrIdle

----------------------------------------------------------------------------
(* Changes of the input folder, made by the developer's tools, and the     *)
(* events the watcher reports for them.                                    *)

\* inotify reports a change of p to a watch on p's directory, and a change
\* other than its creation also to a watch on p itself (one event stands for
\* the two that a watch on both delivers: the loop treats them alike)
Watched(p, op) ==
    ~closed /\ (ParentOf(p) \in watchSet \/ (op # "Create" /\ p \in watchSet))

Notify(p, op) ==
    /\ Watched(p, op) => Len(events) < MaxQueue
    /\ events' = IF Watched(p, op) THEN Append(events, [name |-> p, op |-> op])
                 ELSE events

Changed ==
    /\ changes < MaxChanges
    /\ changes' = changes + 1
    /\ pass' = [pass EXCEPT !.clean = FALSE]

\* created under a watched directory, or under a directory created while watched
IsFresh(p) == ParentOf(p) \in watchSet \/ ParentOf(p) \in fresh

\* a new regular file appears at p with bytes b
CreateFile(p, b) ==
    /\ src[p].kind = "none" /\ Exists(src, ParentOf(p))
    /\ Changed
    /\ src' = [src EXCEPT ![p] = FileEnt(b)]
    /\ Notify(p, "Create")
    /\ fresh' = IF IsFresh(p) THEN fresh \cup {p} ELSE fresh
    /\ UNCHANGED <<out, pc, walk, cur, held, evName, evOp, watchSet>>
    /\ UNCHANGED <<errs, closed, early>>
    /\ MgrIdle

\* the initial CopyAll has returned with file p copied, bytes and all, and
\* filepath.Walk has not yet added the input folder's paths to the watcher
InWindow(p) ==
    /\ pc \in {"copied", "register"} /\ evOp = "none"
    /\ src[p].kind = "file" /\ out[p] = src[p]

\* the bytes of file p change to b
WriteFile(p, b) ==
    /\ src[p].kind = "file" /\ src[p].data # b
    /\ Changed
    /\ src' = [src EXCEPT ![p] = FileEnt(b)]
    /\ Notify(p, "Write")
    /\ early' = IF InWindow(p) THEN early \cup {p} ELSE early
    /\ UNCHANGED <<out, pc, walk, cur, held, evName, evOp, watchSet, fresh>>
    /\ UNCHANGED <<errs, closed>>
    /\ MgrIdle

\* file p is unlinked; a copier that has it open still reads its bytes
RemoveFile(p) ==
    /\ src[p].kind = "file"
    /\ Changed
    /\ src' = [src EXCEPT ![p] = NoEnt]
    /\ held' = IF cur = p /\ held.kind = "none" THEN src[p] ELSE held
    /\ Notify(p, "Remove")
    /\ UNCHANGED <<out, pc, walk, cur, evName, evOp, watchSet, fresh>>
    /\ UNCHANGED <<errs, closed, early>>
    /\ MgrIdle

\* the directory other is created
Mkdir ==
    /\ src[Other].kind = "none"
    /\ Changed
    /\ src' = [src EXCEPT ![Other] = DirEnt]
    /\ Notify(Other, "Create")
    /\ fresh' = IF IsFresh(Other) THEN fresh \cup {Other} ELSE fresh
    /\ UNCHANGED <<out, pc, walk, cur, held, evName, evOp, watchSet>>
    /\ UNCHANGED <<errs, closed, early>>
    /\ MgrIdle

\* the mode bits of file p change: its bytes stay
ChmodFile(p) ==
    /\ src[p].kind = "file"
    /\ changes < MaxChanges
    /\ changes' = changes + 1
    /\ Notify(p, "Chmod")
    /\ UNCHANGED <<src, out, pc, walk, cur, held, evName, evOp, watchSet, pass, fresh>>
    /\ UNCHANGED <<errs, closed, early>>
    /\ MgrIdle

\* file p is renamed to a place outside the input folder; a copier that has
\* it open still reads its bytes
MoveAway(p) ==
    /\ src[p].kind = "file"
    /\ Changed
    /\ src' = [src EXCEPT ![p] = NoEnt]
    /\ held' = IF cur = p /\ held.kind = "none" THEN src[p] ELSE held
    /\ Notify(p, "Rename")
    /\ UNCHANGED <<out, pc, walk, cur, evName, evOp, watchSet, fresh>>
    /\ UNCHANGED <<errs, closed, early>>
    /\ MgrIdle

\* the input folder when Watch is called
SrcTrees ==
    { EmptyTree,
      Tree(FileEnt(AAA), NoEnt, NoEnt),
      Tree(NoEnt, DirEnt, NoEnt),
      Tree(FileEnt(AAA), DirEnt, FileEnt(BB)) }

\* the output folder when Watch is called: any tree, among them what an
\* aborted pass leaves behind (an empty file) and entries of the other kind
OutTrees ==
    { Tree(m, d, x) :
        m \in {NoEnt, DirEnt, FileEnt(<<>>), FileEnt(BB)},
        d \in {NoEnt, DirEnt, FileEnt(AAA)},
        x \in {NoEnt, FileEnt(<<>>), FileEnt(AAA)} }

InitSync ==
    /\ embedded = Fixture
    /\ goEnv = "development"
    /\ fileToHash = EmptyIndex
    /\ gen = 0
    /\ built = goEnv
    /\ last = NoCall
    /\ mark = Kept(NoCall)
    /\ src \in SrcTrees
    /\ out \in {t \in OutTrees : t[OtherXGo].kind # "none" => t[Other].kind = "dir"}
    /\ pc = "idle"
    /\ walk = <<>>
    /\ cur = <<>>
    /\ held = NoEnt
    /\ evName = <<>>
    /\ evOp = "none"
    /\ watchSet = {}
    /\ events = <<>>
    /\ pass = NoPass
    /\ fresh = {}
    /\ changes = 0
    /\ errs = 0
    /\ closed = FALSE
    /\ early = {}

NextSync ==
    \/ WatchStart
    \/ WalkStep
    \/ CopyStep
    \/ CopyFails
    \/ WalkDone
    \/ NewWatcher
    \/ NewWatcherFails
    \/ Register
    \/ RegisterFails
    \/ Panic
    \/ TakeEventCopy
    \/ TakeEventSkip
    \/ EventCopied
    \/ \E p \in FilePaths, b \in Contents : CreateFile(p, b)
    \/ \E p \in FilePaths, b \in Contents : WriteFile(p, b)
    \/ \E p \in FilePaths : RemoveFile(p)
    \/ Mkdir

SpecSync == InitSync /\ [][NextSync]_vars

----------------------------------------------------------------------------
(* The manager serving requests while Watch runs on its live directory:    *)
(* the development setup, where the output folder of the synchronizer is   *)
(* the folder the manager opens files from.                                *)

InitLive ==
    /\ embedded = Fixture
    /\ goEnv \in EnvValues
    /\ fileToHash = EmptyIndex
    /\ gen = 0
    /\ built = goEnv
    /\ last = NoCall
    /\ mark = Kept(NoCall)
    /\ src \in {t \in SrcTrees : t[MainJs].kind = "file"}
    /\ out \in LiveTrees
    /\ pc = "idle"
    /\ walk = <<>>
    /\ cur = <<>>
    /\ held = NoEnt
    /\ evName = <<>>
    /\ evOp = "none"
    /\ watchSet = {}
    /\ events = <<>>
    /\ pass = NoPass
    /\ fresh = {}
    /\ changes = 0
    /\ errs = 0
    /\ closed = FALSE
    /\ early = {}

\* the assets requested while Watch runs: those of the input folder that Open
\* does not deny
LiveNames == {MainJs}

NextLive ==
    \/ NextSync
    \/ \E name \in LiveNames : CallOpen(name)
    \/ \E name \in LiveNames : CallReadFile(name)

SpecLive == InitLive /\ [][NextLive]_vars

----------------------------------------------------------------------------
(* The event loop with all that reaches it: events of every kind, errors   *)
(* of the watcher and the closing of its channels.  Watch starts over an   *)
(* empty output folder.                                                    *)

InitLoop ==
    /\ embedded = Fixture
    /\ goEnv = "development"
    /\ fileToHash = EmptyIndex
    /\ gen = 0
    /\ built = goEnv
    /\ last = NoCall
    /\ mark = Kept(NoCall)
    /\ src \in {t \in SrcTrees : t[MainJs].kind = "file"}
    /\ out = EmptyTree
    /\ pc = "idle"
    /\ walk = <<>>
    /\ cur = <<>>
    /\ held = NoEnt
    /\ evName = <<>>
    /\ evOp = "none"
    /\ watchSet = {}
    /\ events = <<>>
    /\ pass = NoPass
    /\ fresh = {}
    /\ changes = 0
    /\ errs = 0
    /\ closed = FALSE
    /\ early = {}

NextLoop ==
    \/ NextSync
    \/ TakeError
    \/ WatcherCloses
    \/ LoopReturns
    \/ \E p \in FilePaths : ChmodFile(p)
    \/ \E p \in FilePaths : MoveAway(p)

SpecLoop == InitLoop /\ [][NextLoop]_vars

----------------------------------------------------------------------------
(* Claims about the tree synchronizer, checked under SpecSync. *)

\* every regular file of the input folder has its copy in the output folder
Mirrored(paths) == \A p \in paths : src[p].kind = "file" => out[p] = src[p]

\* C8: when a CopyAll pass returns no error and the input folder did not
\* change during the pass, every regular file of the input folder has a file
\* with the same bytes at the same relative path of the output folder,
\* whatever the output folder held before the pass.
C8_Mirror ==
    (pc = "copied" /\ ~pass.err /\ pass.clean) => Mirrored(FilePaths)

C8_Witness ==
    /\ pc = "copied" /\ ~pass.err /\ pass.clean
    /\ src[MainJs] = FileEnt(AAA) /\ src[OtherXGo] = FileEnt(BB)
    /\ pass.base[MainJs] = FileEnt(BB) /\ pass.base[OtherXGo] = FileEnt(<<>>)
    /\ Mirrored(FilePaths)

\* C9: a CopyAll pass that returns nil and follows another one that returned
\* nil, with no change of the input folder since that one began, leaves the
\* output folder as it found it, that is as the first pass left it.
C9_Idempotent ==
    (pc = "copied" /\ pass.twice /\ pass.clean /\ ~pass.err) => out = pass.base

C9_Witness ==
    /\ pc = "copied" /\ pass.twice /\ pass.clean /\ ~pass.err
    /\ src[MainJs].kind = "file" /\ src[OtherXGo].kind = "file"
    /\ out = pass.base /\ Mirrored(FilePaths)

\* the place of path p in the order of the walk
Rank(p) == CHOOSE i \in 1..Len(SortedPaths) : SortedPaths[i] = p

\* the pass that just returned left every path after p as it found it
UntouchedAfter(p) ==
    \A q \in SyncPaths : Rank(q) > Rank(p) => out[q] = pass.base[q]

\* C16: when the copy of a file fails in a pass started by an event, CopyAll
\* returns the error with the walk stopped at that file (no later path is
\* touched); the loop does not panic or exit on the error but goes back to
\* waiting for events; and the pass that a later event starts, if it returns
\* nil over an unchanged input folder, leaves every file mirrored.
C16_CopyFailure ==
    /\ (pc = "copied" /\ pass.event /\ pass.err)
          => (walk = <<>> /\ cur = <<>> /\ UntouchedAfter(pass.at))
    /\ (pass.event /\ pass.err) => pc \in {"copied", "watching"}
    /\ (pc = "copied" /\ pass.retry /\ ~pass.err /\ pass.clean)
          => (pass.event /\ Mirrored(FilePaths))

C16_Witness ==
    /\ pc = "copied" /\ pass.retry /\ pass.event /\ ~pass.err /\ pass.clean
    /\ src[MainJs].kind = "file" /\ src[OtherXGo].kind = "file"
    /\ pass.base[MainJs] = FileEnt(<<>>) /\ pass.base[OtherXGo] # src[OtherXGo]
    /\ Mirrored(FilePaths)

\* C17 as stated: when the copy of one file fails in a pass, over an input
\* folder that does not change during the pass, every other regular file of
\* the input folder has its copy in the output folder when the pass returns.
C17_Original ==
    (pc = "copied" /\ pass.err /\ pass.clean)
        => Mirrored(FilePaths \ {pass.at})

\* C17: when the copy of one file fails in a pass, over an input folder that
\* does not change during the pass, the pass ends there: the files the walk
\* visited before the failing one are copied, the failing file is not, and
\* every path after it in the walk's order is left as the pass found it.
C17_StopsAtFailure ==
    (pc = "copied" /\ pass.err /\ pass.clean)
        => /\ Mirrored({p \in FilePaths : Rank(p) < Rank(pass.at)})
           /\ out[pass.at] # src[pass.at]
           /\ UntouchedAfter(pass.at)

C17_Witness ==
    /\ pc = "copied" /\ pass.err /\ pass.clean /\ pass.at = MainJs
    /\ src[MainJs] = FileEnt(AAA) /\ out[MainJs] = FileEnt(<<>>)
    /\ src[OtherXGo] = FileEnt(BB) /\ pass.base[OtherXGo] = NoEnt
    /\ out[OtherXGo] = NoEnt

\* C18: CopyAll passes of one Watch never overlap.  A walk is in progress
\* only at the one position where CopyAll runs; the pass of an event runs
\* only after the initial pass has returned and the paths are registered;
\* and the loop takes an event from the channel only while it handles none
\* and no pass is running.
C18_Serialized ==
    /\ []((walk # <<>> \/ cur # <<>>) => pc = "copy")
    /\ [](evOp # "none" => (pc \in {"copy", "copied"} /\ pass.event /\ Root \in watchSet))
    /\ [][(events # <<>> /\ events' = Tail(events))
            => (pc = "watching" /\ evOp = "none" /\ walk = <<>> /\ cur = <<>>)]_vars

C18_Witness ==
    /\ pc = "copy" /\ pass.event /\ cur # <<>>
    /\ events # <<>> /\ NeedsCopy(Head(events).op)

C20_SetupFatal ==
    /\ [](pc \in {"failed", "panicked"} => (evOp = "none" /\ ~pass.event))
    /\ [][(pc \in {"failed", "panicked"}) => pc' \in {pc, "panicked"}]_vars

C20_Witness ==
    /\ pc = "panicked" /\ MainJs \in fresh
    /\ events # <<>> /\ NeedsCopy(Head(events).op)

\* C10 as stated: a regular file created while Watch is watching, in a watched
\* directory or in a directory created while watching, gets its copy in the
\* output folder with no further change of the input folder: once the loop is
\* idle with no event left (and its last pass returned no error), the copy is
\* there.
C10_Convergence ==
    (pc = "watching" /\ events = <<>> /\ ~pass.err) => Mirrored(fresh \cap FilePaths)

----------------------------------------------------------------------------
(* Claims about requests served while Watch runs, checked under SpecLive.  *)
(* The record of a call is dropped at the next step of the synchronizer,   *)
(* so a claim reads the call against the folders as the call found them.   *)

\* an Open or ReadFile call of a name that Open does not deny
Served(op, env) == last.op = op /\ last.env = env /\ Ext(last.name) # ".go"

\* no CopyAll pass is running, the last one returned no error and the input
\* folder is as that pass found it
PassDone == pc \in {"copied", "register", "watching"} /\ ~pass.err /\ pass.clean

\* C11 as stated: an Open in development mode that runs during a CopyAll
\* pass, of a file that the output folder held before the pass and that the
\* input folder holds unchanged since the pass began, returns the bytes from
\* before the pass or those the pass writes, never an empty or partial file.
C11_NoTornRead ==
    (/\ Served("Open", "development") /\ pc = "copy" /\ pass.clean
     /\ FsLookup(pass.base, last.name).kind = "file"
     /\ FsLookup(src, last.name).kind = "file")
        => /\ last.ok
           /\ last.data \in {pass.base[last.name].data, src[last.name].data}

\* C13: in development mode an Open of a name that is not denied reads the
\* live directory as it is at the call: it succeeds iff the name is there and
\* returns the bytes found there, not the bundle's; after a CopyAll pass
\* that returned no error these are the bytes of the input folder's file,
\* which the pass wrote.
C13_OpenFresh ==
    Served("Open", "development")
        => /\ last.fsys = "folder"
           /\ last.ok = (FsLookup(out, last.name).kind # "none")
           /\ last.data = FsLookup(out, last.name).data
           /\ (PassDone /\ FsLookup(src, last.name).kind = "file")
                 => (last.ok /\ last.data = src[last.name].data)

C13_Witness ==
    /\ Served("Open", "development") /\ last.name = MainJs
    /\ pc = "watching" /\ PassDone
    /\ embedded[MainJs].data = AAA /\ pass.base[MainJs].data = AAA
    /\ src[MainJs].data = BB
    /\ last.ok /\ last.data = BB

\* C14 as stated: in development mode ReadFile of a name that is not denied
\* returns the bytes the live directory holds at the call, which are also
\* the bytes of Open of the same name, and fails when the name is not there.
C14_ReadFileFresh ==
    Served("ReadFile", "development")
        => LET o == Open(last.name, last.env, embedded, out)
           IN  /\ last.ok = (FsLookup(out, last.name).kind = "file")
               /\ last.data = FsLookup(out, last.name).data
               /\ last.data = o.data

\* C15: in a mode other than development every Open of a name that is not
\* denied returns the entry of the bundle the manager was constructed over,
\* whatever the live directory holds and whatever pass is running; so any
\* two such calls for one name return the same outcome and the same bytes.
C15_SnapshotImmutable ==
    (last.op = "Open" /\ last.env # "development" /\ Ext(last.name) # ".go")
        => /\ last.fsys = "embedded"
           /\ last.ok = (FsLookup(Fixture, last.name).kind # "none")
           /\ last.data = FsLookup(Fixture, last.name).data

C15_Witness ==
    /\ Served("Open", "production") /\ last.name = MainJs
    /\ pc = "copy" /\ cur = MainJs /\ changes > 0
    /\ out[MainJs] = FileEnt(<<>>)
    /\ last.ok /\ last.data = AAA

----------------------------------------------------------------------------
(* Claims about the event loop, checked under SpecLoop. *)

\* the loop takes the first event from watcher.Events
TakesEvent == events # <<>> /\ events' = Tail(events) /\ ~closed'

\* C21: the step that receives an error from watcher.Errors happens at the
\* loop's select and leaves the loop there: it starts no pass and changes
\* neither the watch set nor the output folder nor the waiting events, so
\* the events that follow are handled as usual.
C21_ErrorsLogged ==
    [][(errs' # errs)
        => (/\ pc = "watching" /\ pc' = "watching"
            /\ out' = out /\ watchSet' = watchSet /\ events' = events
            /\ pass' = pass /\ walk' = walk /\ cur' = cur)]_vars

C21_Witness ==
    /\ errs > 0 /\ changes = 1
    /\ pc = "copy" /\ pass.event /\ cur # <<>>

\* C22: every step that changes the input folder (a file or directory of it
\* created, written or removed) is a change made by the developer's tools:
\* it is no step of Watch or CopyAll, whose position, walk, output folder
\* and watch set it leaves alone.
C22_SourceUntouched ==
    [][(src' # src)
        => (/\ changes' = changes + 1
            /\ pc' = pc /\ walk' = walk /\ cur' = cur
            /\ out' = out /\ watchSet' = watchSet)]_vars

C22_Witness ==
    /\ pc = "copied" /\ pass.event /\ ~pass.err /\ pass.clean
    /\ src[MainJs].kind = "file" /\ src[OtherXGo].kind = "file"
    /\ out # pass.base /\ Mirrored(FilePaths)

\* C23: Watch never returns to its caller, and once the loop runs no step
\* takes Watch back or makes it panic: the loop waits, copies, or has
\* stopped after the channels were closed, with Watch still blocked.
C23_NeverReturns ==
    /\ [](pc # "returned")
    /\ [][(pc \in {"watching", "stopped"} \/ pass.event)
            => pc' \in {"watching", "copy", "copied", "stopped"}]_vars

C23_Witness ==
    /\ pc = "stopped" /\ closed /\ errs > 0 /\ pass.event

\* C24: the loop starts a CopyAll pass, from the root of the input folder,
\* for every event it takes whose operation is Create, Write or Rename, and
\* for no other reason; taking an event of another operation (Remove,
\* Chmod) starts no pass and leaves the watch set and the output folder as
\* they are.
C24_EventFilter ==
    /\ [][TakesEvent
            => IF Head(events).op \in {"Create", "Write", "Rename"}
               THEN /\ pc = "watching" /\ pc' = "copy" /\ pass'.event
                    /\ walk' = ReadDirNames(src, Root) /\ pass'.base = out
               ELSE /\ pc' = pc /\ out' = out /\ watchSet' = watchSet
                    /\ pass' = pass /\ walk' = walk]_vars
    /\ [][(pc' = "copy" /\ pc \notin {"copy", "idle"}) => TakesEvent]_vars

C24_Witness ==
    /\ pc = "copy" /\ evOp = "Rename" /\ pass.event
    /\ events # <<>> /\ Head(events).op = "Chmod"

\* C25: Watch starts in this order: the initial CopyAll runs to its end (no
\* watcher exists, nothing is queued and no event is in hand while it runs or
\* before it), then the watcher is made and one step registers the input
\* folder and every path that exists under it, and only that step starts the
\* loop; events are taken by the loop alone; the initial CopyAll's error
\* does not keep the watcher from being made.
C25_StartupOrder ==
    /\ []((pc \in {"idle", "register"} \/ (pc \in {"copy", "copied"} /\ ~pass.event))
            => (watchSet = {} /\ events = <<>> /\ evOp = "none" /\ evName = <<>>))
    /\ []((pc = "register") => (walk = <<>> /\ cur = <<>> /\ ~pass.event))
    /\ []((pc = "copied" /\ ~pass.event) => ENABLED NewWatcher)
    /\ [][(pc' = "register") => (pc \in {"copied", "register"})]_vars
    /\ [][(pc = "register" /\ pc' = "watching")
            => watchSet' = {Root} \cup {p \in SyncPaths : src[p].kind # "none"}]_vars
    /\ [][(pc' = "watching" /\ pc # "watching")
            => (pc = "register" \/ (pc = "copied" /\ pass.event))]_vars
    /\ [][TakesEvent => pc = "watching"]_vars

C25_Witness ==
    /\ pc = "watching" /\ ~pass.event /\ pass.err
    /\ src[Other].kind = "dir" /\ src[MainJs].kind = "file"
    /\ {Root, Other, MainJs} \subseteq watchSet
\* C26: the step that ends the handling of an event adds the event's path to
\* the watch set when the event has the Create flag and the path (a new
\* directory, say) still exists, after a pass that failed as after one that
\* succeeded, and leaves the watch set alone for an event without the flag;
\* the watch set changes at no other step of the loop: not when the event is
\* taken, not while its pass runs.
C26_CreateAdds ==
    /\ [][(pc = "copied" /\ pass.event /\ pc' = "watching")
            => IF evOp = "Create" /\ Exists(src, evName)
               THEN watchSet' = watchSet \cup {evName}
               ELSE watchSet' = watchSet]_vars
    /\ [][(watchSet' # watchSet)
            => (\/ pc = "register"
                \/ (pc = "copied" /\ evOp = "Create" /\ walk = <<>> /\ cur = <<>>))]_vars

C26_Witness ==
    /\ pc = "watching" /\ pass.event /\ pass.err
    /\ src[Other].kind = "dir" /\ Other \in fresh /\ Other \in watchSet
\* C28: no step removes a file of the output folder or turns it into
\* something else, and a step leaves a file of the output folder as it is,
\* bytes included, when the input folder has no regular file at its path and
\* no copy to it is under way; so the copy of a file deleted from the input
\* folder is still there, unchanged, when a later pass has returned.
C28_NeverRemoves ==
    /\ [][(\A p \in SyncPaths : out[p].kind = "file" => out'[p].kind = "file")]_vars
    /\ [][(\A p \in SyncPaths :
               (out[p].kind = "file" /\ src[p].kind # "file" /\ cur # p)
                   => out'[p] = out[p])]_vars
    /\ []((pc = "copied" /\ pass.base[MainJs].kind = "file") => out[MainJs].kind = "file")

C28_Witness ==
    /\ pc = "copied" /\ pass.event /\ ~pass.err /\ out # pass.base
    /\ src[MainJs].kind = "none" /\ src[OtherXGo].kind = "file"
    /\ out[MainJs] = FileEnt(AAA) /\ pass.base[MainJs] = out[MainJs]
    /\ out[OtherXGo] = src[OtherXGo]

-----------------------------------------------------------------------------
(* Watch over an input folder that has no directory yet, where a directory *)
(* can also arrive with a directory already inside it.                      *)

\* a directory tree arrives in the input folder at once (mkdir -p, or a tree
\* moved in): the directory other with a directory in it.  inotify reports
\* the creation of other to the watch on its parent; nothing watches other
\* yet, so the directory inside it is reported to nobody
MkdirNested ==
    /\ src[Other].kind = "none" /\ src[OtherXGo].kind = "none"
    /\ Changed
    /\ src' = [src EXCEPT ![Other] = DirEnt, ![OtherXGo] = DirEnt]
    /\ Notify(Other, "Create")
    /\ fresh' = IF IsFresh(Other) THEN fresh \cup {Other, OtherXGo} ELSE fresh
    /\ UNCHANGED <<out, pc, walk, cur, held, evName, evOp, watchSet>>
    /\ UNCHANGED <<errs, closed, early>>
    /\ MgrIdle

InitTree ==
    /\ embedded = Fixture
    /\ goEnv = "development"
    /\ fileToHash = EmptyIndex
    /\ gen = 0
    /\ built = goEnv
    /\ last = NoCall
    /\ mark = Kept(NoCall)
    /\ src \in {t \in SrcTrees : t[Other].kind = "none"}
    /\ out = EmptyTree
    /\ pc = "idle"
    /\ walk = <<>>
    /\ cur = <<>>
    /\ held = NoEnt
    /\ evName = <<>>
    /\ evOp = "none"
    /\ watchSet = {}
    /\ events = <<>>
    /\ pass = NoPass
    /\ fresh = {}
    /\ changes = 0
    /\ errs = 0
    /\ closed = FALSE
    /\ early = {}

NextTree ==
    \/ NextSync
    \/ MkdirNested

SpecTree == InitTree /\ [][NextTree]_vars

\* C27: whenever the loop is idle (at its select, no event in hand, none
\* queued), every directory that exists under the input folder is in the
\* watch set, a directory that arrived together with its parent included.
C27_Coverage ==
    (pc = "watching" /\ evOp = "none" /\ events = <<>>)
        => \A p \in SyncPaths : src[p].kind = "dir" => p \in watchSet

\* C29: a file written after the initial CopyAll copied it and before its
\* directory was registered with the watcher has its new bytes in the output
\* folder once the loop is idle (at its select, no event in hand, none
\* queued, the last pass without error), with no further change of the
\* input folder.
C29_NoLostUpdate ==
    (pc = "watching" /\ evOp = "none" /\ events = <<>> /\ ~pass.err)
        => Mirrored(early)
====
